---- MODULE Spec2Model ----
(***************************************************************************)
(* The graph walker of cadmus-graph-ui (GraphWalker, graph-walker.ts) as a *)
(* state machine.  Node objects and filter objects live in two heaps,      *)
(* because the walker shares them by reference between the published       *)
(* collections, the snapshots captured by in-flight requests, the          *)
(* selection and the filter slots, and mutates them in place.              *)
(* Ids are strings, modelled as sequences of one-character strings.        *)
(***************************************************************************)
EXTENDS Integers, Sequences, FiniteSets, TLC

\* ------------------------------------------------------------------ bounds
\* user operations (reset, select, toggle, expandSelected...) started in a run
MaxOps == 3
\* user operations started in a run of a host that waits for every request
MaxSeqOps == 5
\* user operations started in a run of a host that resets at any moment
MaxRebindOps == 4
\* requests in flight at the same time
MaxPending == 2
\* the walker's pageSize property as the host sets it
PageSize == 2

\* ----------------------------------------------------------- JS primitives
\* null / undefined object reference
Null == 0
\* an undefined number (outTotal, inTotal, litTotal before an expansion)
Undef == -1

Digits == <<"0", "1", "2", "3", "4", "5", "6", "7", "8", "9">>

IsDigit(c) == \E d \in 1..10 : Digits[d] = c

DigitVal(c) == (CHOOSE d \in 1..10 : Digits[d] = c) - 1

\* `${n}` for a non-negative integer
RECURSIVE NumStr(_)
NumStr(n) == IF n < 10 THEN <<Digits[n + 1]>>
             ELSE NumStr(n \div 10) \o <<Digits[(n % 10) + 1]>>

\* +s for a string of digits; +"" is 0
RECURSIVE StrNum(_)
StrNum(s) == IF s = <<>> THEN 0
             ELSE 10 * StrNum(SubSeq(s, 1, Len(s) - 1)) + DigitVal(s[Len(s)])

\* s.indexOf(c), 1-based; 0 stands for JavaScript's -1
IndexOf(s, c) == IF \E i \in 1..Len(s) : s[i] = c
                 THEN CHOOSE i \in 1..Len(s) : s[i] = c /\ \A j \in 1..(i - 1) : s[j] # c
                 ELSE 0

\* s.substring(i) with a 1-based first position
Tail1(s, i) == SubSeq(s, i, Len(s))

\* ------------------------------------------------------------- id helpers
buildNodeId(id) == <<"N">> \o NumStr(id)

getNodeNumericId(id) ==
    LET i == IndexOf(id, "N")
    IN  IF i = 0 THEN 0 ELSE StrNum(Tail1(id, i + 1))

getPredicateNumericId(id) ==
    LET i == IndexOf(id, "P")
        j == IndexOf(id, "N")
    IN  IF i = 0 THEN 0 ELSE StrNum(SubSeq(id, i + 1, j - 1))

buildEdgeId(source, target) == <<"E">> \o source \o <<"_">> \o target

buildPropertyId(predicateId, nodeId) ==
    <<"P">> \o NumStr(predicateId) \o <<"N">> \o NumStr(nodeId)

buildLiteralId(tripleId) == <<"L">> \o NumStr(tripleId)

\* node.id.charAt(0); "" for the empty string
CharAt0(id) == IF id = <<>> THEN "" ELSE id[1]

\* the regular expression ^E([^_]+)_(.+)$ : the two groups, or <<>> for null
getEdgeEndIds(edgeId) ==
    LET i == IndexOf(edgeId, "_")
    IN  IF /\ Len(edgeId) > 0
           /\ edgeId[1] = "E"
           /\ i > 2
           /\ i < Len(edgeId)
        THEN <<SubSeq(edgeId, 2, i - 1), Tail1(edgeId, i + 1)>>
        ELSE <<>>

\* a test that accepts only the edge from the group node anchored at nodeId
InboundEdgeRegex_ownAnchor(predicateId, nodeId, edgeId) ==
    edgeId = <<"E", "P">> \o NumStr(predicateId) \o nodeId \o <<"_">> \o nodeId

\* the regular expression '^EP' + predicateId + 'N[0-9]+_' + nodeId + '$'
InboundEdgeRegex(predicateId, nodeId, edgeId) ==
    LET pre == <<"E", "P">> \o NumStr(predicateId) \o <<"N">>
        suf == <<"_">> \o nodeId
        n   == Len(edgeId)
    IN  /\ n > Len(pre) + Len(suf)
        /\ SubSeq(edgeId, 1, Len(pre)) = pre
        /\ SubSeq(edgeId, n - Len(suf) + 1, n) = suf
        /\ \A k \in (Len(pre) + 1)..(n - Len(suf)) : IsDigit(edgeId[k])

\* ------------------------------------------------- the query service (spec section 6)
\* the entities the host resets the walker to
RootIds == {1, 3}

\* The backing graph: the triples (id, subject, predicate, object) of the
\* entities 1 to 4, where object 0 marks a triple whose object is a literal.
Triples == { [id |-> 1, s |-> 1, p |-> 8, o |-> 2, lit |-> "",      type |-> ""],
             [id |-> 2, s |-> 1, p |-> 7, o |-> 3, lit |-> "",      type |-> ""],
             [id |-> 3, s |-> 2, p |-> 7, o |-> 3, lit |-> "",      type |-> ""],
             [id |-> 4, s |-> 1, p |-> 7, o |-> 0, lit |-> "hello", type |-> "xs:string"],
             [id |-> 5, s |-> 3, p |-> 8, o |-> 1, lit |-> "",      type |-> ""],
             [id |-> 6, s |-> 2, p |-> 8, o |-> 1, lit |-> "",      type |-> ""],
             [id |-> 7, s |-> 4, p |-> 8, o |-> 3, lit |-> "",      type |-> ""] }

PredicateUri(p) == IF p = 7 THEN "rdf:type" ELSE "crm:P8"

Has(f, k) == k \in DOMAIN f

\* the elements of a finite set of integers in ascending order
RECURSIVE SortedSeq(_)
SortedSeq(S) == IF S = {} THEN <<>>
                ELSE LET m == CHOOSE x \in S : \A y \in S : x <= y
                     IN  <<m>> \o SortedSeq(S \ {m})

\* one page of a result list
Page(items, pageNumber, pageSize) ==
    LET from == (pageNumber - 1) * pageSize + 1
        to   == IF pageNumber * pageSize < Len(items) THEN pageNumber * pageSize
                ELSE Len(items)
    IN  IF pageNumber < 1 \/ pageSize < 1 \/ from > to THEN <<>>
        ELSE SubSeq(items, from, to)

PageOf(items, filter) ==
    [items |-> Page(items, filter.pageNumber, filter.pageSize), total |-> Len(items)]

\* getTripleGroups(filter): the predicates of the triples matching the filter's
\* subjectId and objectId, each with the count of its triples
getTripleGroups(filter) ==
    LET match == { t \in Triples :
                     /\ Has(filter, "subjectId") => t.s = filter.subjectId
                     /\ Has(filter, "objectId") => t.o = filter.objectId }
        preds == SortedSeq({ t.p : t \in match })
        group(p) == [predicateId |-> p, predicateUri |-> PredicateUri(p),
                     count |-> Cardinality({ t \in match : t.p = p })]
    IN  PageOf([i \in 1..Len(preds) |-> group(preds[i])], filter)

\* getLinkedNodes(filter): the entities linked to otherNodeId by predicateId,
\* as objects of its triples (isObject) or as their subjects
getLinkedNodes(filter) ==
    LET other == IF Has(filter, "otherNodeId") THEN filter.otherNodeId ELSE 0
        pred  == IF Has(filter, "predicateId") THEN filter.predicateId ELSE 0
        ids == IF Has(filter, "isObject") /\ filter.isObject
               THEN { t.o : t \in { u \in Triples : u.s = other /\ u.p = pred /\ u.o # 0 } }
               ELSE { t.s : t \in { u \in Triples : u.o = other /\ u.p = pred } }
        seq == SortedSeq(ids)
    IN  PageOf([i \in 1..Len(seq) |-> [id |-> seq[i]]], filter)

\* getLinkedLiterals(filter): the literal triples of subjectId and predicateId
getLinkedLiterals(filter) ==
    LET subj == IF Has(filter, "subjectId") THEN filter.subjectId ELSE 0
        pred == IF Has(filter, "predicateId") THEN filter.predicateId ELSE 0
        ids == { t.id : t \in { u \in Triples : u.s = subj /\ u.p = pred /\ u.o = 0 } }
        seq == SortedSeq(ids)
        triple(i) == CHOOSE t \in Triples : t.id = i
    IN  PageOf([i \in 1..Len(seq) |->
                  [id |-> seq[i], objectLiteral |-> triple(seq[i]).lit,
                   literalType |-> triple(seq[i]).type]], filter)

\* Object.assign(target, source): the target with the source's keys written over
ObjectAssign(target, source) ==
    [k \in DOMAIN target \cup DOMAIN source |->
        IF k \in DOMAIN source THEN source[k] ELSE target[k]]

\* {}: the object without keys
EmptyObject == [k \in {} |-> 0]

\* ------------------------------------------------------------------ state
VARIABLES
    heap,          \* node objects: address -> GraphNode with its data
    fheap,         \* filter objects: address -> filter
    nodes,         \* _nodes$.value: the published array of node references
    edges,         \* _edges$.value: the published array of edges
    loading,       \* _loading$.value
    error,         \* _error$.value, "" for null
    rootNode,      \* _rootNode, Null before the first reset succeeds
    selectedNode,  \* _selectedNode$.value
    slots,         \* the five filter subjects: references to filter objects
    childTotals,   \* _childTotals$.value
    pending,       \* the subscriptions whose queries have not all settled
    ops,           \* user operations started so far
    last           \* the handler that ran last, the node it ran for, its results

vars == <<heap, fheap, nodes, edges, loading, error, rootNode, selectedNode,
          slots, childTotals, pending, ops, last>>

\* The walker's fields as one value, for the handlers written as functions.
Walker == [heap |-> heap, fheap |-> fheap, nodes |-> nodes, edges |-> edges,
           loading |-> loading, error |-> error, rootNode |-> rootNode,
           selectedNode |-> selectedNode, slots |-> slots,
           childTotals |-> childTotals, pending |-> pending]

NoFilters == [nOut |-> Null, nIn |-> Null, pOut |-> Null, pIn |-> Null, pLit |-> Null]

NoTotals == [nOut |-> 0, nIn |-> 0, pOut |-> 0, pIn |-> 0, pLit |-> 0]

\* new X(): the lowest address the heap does not use
Alloc(h) == CHOOSE a \in 1..(Cardinality(DOMAIN h) + 1) :
                /\ a \notin DOMAIN h
                /\ \A b \in 1..(a - 1) : b \in DOMAIN h

\* h with a new object o at address a
Store(h, a, o) == [x \in DOMAIN h \cup {a} |-> IF x = a THEN o ELSE h[x]]

\* array.find(pred): the first element whose index is in the set hits, or Null
Find(arr, hits) ==
    IF hits = {} THEN Null
    ELSE arr[CHOOSE i \in hits : \A j \in hits : i <= j]

\* n || 0 for a number that may be undefined
OrZero(n) == IF n = Undef THEN 0 ELSE n

\* ---------------------------------------------------------------- helpers
\* toggleLoading leaving the error message alone
toggleLoading_keepError(w, on) == [w EXCEPT !.loading = on]

toggleLoading(w, on) ==
    IF on THEN [w EXCEPT !.error = "", !.loading = TRUE]
    ELSE [w EXCEPT !.loading = FALSE]

\* an error value is a string, or an object (e.g. an HttpErrorResponse)
ErrorValues == { [type |-> "string", text |-> "Not found"],
                 [type |-> "object", text |-> ""] }

\* setError publishing the text of the error value as it is
setError_raw(w, err) == [w EXCEPT !.error = err.text]

setError(w, err) ==
    IF err.type = "string" /\ err.text # ""
    THEN [w EXCEPT !.error = err.text]
    ELSE [w EXCEPT !.error = "Walker error"]

\* addEdgeIfAbsent looking for the edge's own id only
addEdgeIfAbsent_noInverse(edge, es) ==
    IF \E k \in 1..Len(es) : es[k].id = edge.id THEN es ELSE Append(es, edge)

addEdgeIfAbsent(edge, es) ==
    LET id == edge.id
        i  == IndexOf(id, "_")
        invId == <<"E">> \o Tail1(id, i + 1) \o <<"_">> \o SubSeq(id, 2, i - 1)
    IN  IF \E k \in 1..Len(es) : es[k].id = id THEN es
        ELSE IF i > 0 /\ \E k \in 1..Len(es) : es[k].id = invId THEN es
        ELSE Append(es, edge)

resetFilters(w) == [w EXCEPT !.slots = NoFilters, !.childTotals = NoTotals]

\* selectNode publishing the entity-level slots whatever the variant
selectNode_entitySlots(w, id) ==
    LET node == IF id = <<>> THEN Null
                ELSE Find(w.nodes, { i \in 1..Len(w.nodes) : w.heap[w.nodes[i]].id = id })
    IN  IF node = Null
        THEN resetFilters([w EXCEPT !.selectedNode = Null])
        ELSE
        LET old == Find(w.nodes, { i \in 1..Len(w.nodes) : w.heap[w.nodes[i]].selected })
            h1  == IF old = Null THEN w.heap
                   ELSE [w.heap EXCEPT ![old].selected = FALSE]
            h2  == [h1 EXCEPT ![node].selected = TRUE]
            nd  == h2[node]
        IN  [w EXCEPT !.heap = h2, !.selectedNode = node,
                      !.slots = [nOut |-> nd.outFilter, nIn |-> nd.inFilter,
                                 pOut |-> Null, pIn |-> Null, pLit |-> Null],
                      !.childTotals = [nOut |-> OrZero(nd.outTotal),
                                       nIn |-> OrZero(nd.inTotal),
                                       pOut |-> 0, pIn |-> 0, pLit |-> 0]]

selectNode(w, id) ==
    LET node == IF id = <<>> THEN Null
                ELSE Find(w.nodes, { i \in 1..Len(w.nodes) : w.heap[w.nodes[i]].id = id })
    IN  IF node = Null
        THEN resetFilters([w EXCEPT !.selectedNode = Null])
        ELSE
        LET old == Find(w.nodes, { i \in 1..Len(w.nodes) : w.heap[w.nodes[i]].selected })
            h1  == IF old = Null THEN w.heap
                   ELSE [w.heap EXCEPT ![old].selected = FALSE]
            h2  == [h1 EXCEPT ![node].selected = TRUE]
            w1  == [w EXCEPT !.heap = h2, !.selectedNode = node]
            nd  == h2[node]
            c   == CharAt0(nd.id)
        IN  IF c = "N"
            THEN [w1 EXCEPT
                    !.slots = [nOut |-> nd.outFilter, nIn |-> nd.inFilter,
                               pOut |-> Null, pIn |-> Null, pLit |-> Null],
                    !.childTotals = [nOut |-> OrZero(nd.outTotal),
                                     nIn |-> OrZero(nd.inTotal),
                                     pOut |-> 0, pIn |-> 0, pLit |-> 0]]
            ELSE IF c = "P"
            THEN [w1 EXCEPT
                    !.slots = [nOut |-> Null, nIn |-> Null,
                               pOut |-> nd.outFilter, pIn |-> nd.inFilter,
                               pLit |-> nd.litFilter],
                    !.childTotals = [nOut |-> 0, nIn |-> 0,
                                     pOut |-> OrZero(nd.outTotal),
                                     pIn |-> OrZero(nd.inTotal),
                                     pLit |-> OrZero(nd.litTotal)]]
            ELSE IF c = "L" THEN resetFilters(w1)
            ELSE w1

\* ------------------------------------------------------------ node objects
\* A GraphNode with its data; filters are held by value until the node is
\* stored on the heap (pushed to an array), and by reference from then on.
NodeObject(id, originId, outFilter, inFilter, litFilter, type) ==
    [id |-> id, originId |-> originId, expanded |-> FALSE, error |-> "",
     selected |-> FALSE, outFilter |-> outFilter, inFilter |-> inFilter,
     litFilter |-> litFilter, outTotal |-> Undef, inTotal |-> Undef,
     litTotal |-> Undef, type |-> type]

\* a filter property the variant does not have
NoFilter == EmptyObject

\* store a freshly built node and its filter objects; yields the node's address
StoreNode(w, obj) ==
    LET none(f) == DOMAIN f = {}
        a  == Alloc(w.heap)
        fo == Alloc(w.fheap)
        f1 == IF none(obj.outFilter) THEN w.fheap ELSE Store(w.fheap, fo, obj.outFilter)
        fi == Alloc(f1)
        f2 == IF none(obj.inFilter) THEN f1 ELSE Store(f1, fi, obj.inFilter)
        fl == Alloc(f2)
        f3 == IF none(obj.litFilter) THEN f2 ELSE Store(f2, fl, obj.litFilter)
        o  == [obj EXCEPT
                 !.outFilter = IF none(obj.outFilter) THEN Null ELSE fo,
                 !.inFilter  = IF none(obj.inFilter) THEN Null ELSE fi,
                 !.litFilter = IF none(obj.litFilter) THEN Null ELSE fl]
    IN  [w |-> [w EXCEPT !.heap = Store(w.heap, a, o), !.fheap = f3], addr |-> a]

buildRootNode(id) ==
    NodeObject(buildNodeId(id), <<>>,
               [pageNumber |-> 1, pageSize |-> PageSize],
               [pageNumber |-> 1, pageSize |-> PageSize],
               NoFilter, "")

buildPropertyNode(sourceId, group) ==
    LET nid == getNodeNumericId(sourceId)
    IN  NodeObject(buildPropertyId(group.predicateId, nid), sourceId,
                   [pageNumber |-> 1, pageSize |-> PageSize,
                    otherNodeId |-> nid, predicateId |-> group.predicateId],
                   [pageNumber |-> 1, pageSize |-> PageSize,
                    otherNodeId |-> nid, predicateId |-> group.predicateId],
                   [pageNumber |-> 1, pageSize |-> PageSize,
                    predicateId |-> group.predicateId],
                   "")

buildNonLiteralNode(sourceId, node) ==
    LET nid == getNodeNumericId(sourceId)
    IN  NodeObject(buildNodeId(node.id), sourceId,
                   [pageNumber |-> 0, pageSize |-> PageSize, subjectId |-> nid],
                   [pageNumber |-> 0, pageSize |-> PageSize, objectId |-> nid],
                   NoFilter, "")

buildLiteralNode(sourceId, triple) ==
    NodeObject(buildLiteralId(triple.id), sourceId, NoFilter, NoFilter, NoFilter,
               triple.literalType)

buildEdge(source, target, label, originId) ==
    [id |-> buildEdgeId(source, target), label |-> label, source |-> source,
     target |-> target, originId |-> originId]

\* ----------------------------------------------------------------- teardown
\* removeDescendantNodes(originId, nodes, removedIds) on the array ns:
\* the array left and the ids removed
\* removeDescendantNodes without the recursion into the removed nodes
removeDescendantNodes_direct(h, originId, ns) ==
    [nodes |-> SelectSeq(ns, LAMBDA a : h[a].originId # originId),
     removedIds |-> { h[ns[i]].id : i \in { j \in 1..Len(ns) : h[ns[j]].originId = originId } }]

RECURSIVE removeDescendantNodes(_, _, _)
RECURSIVE removeEach(_, _, _, _)
removeEach(h, ids, ns, removed) ==
    IF ids = {} THEN [nodes |-> ns, removedIds |-> removed]
    ELSE LET id == CHOOSE x \in ids : TRUE
             r  == removeDescendantNodes(h, id, ns)
         IN  removeEach(h, ids \ {id}, r.nodes, removed \cup r.removedIds)

removeDescendantNodes(h, originId, ns) ==
    LET ids  == { h[ns[i]].id : i \in { j \in 1..Len(ns) : h[ns[j]].originId = originId } }
        rest == SelectSeq(ns, LAMBDA a : h[a].originId # originId)
    IN  removeEach(h, ids, rest, ids)

\* removeChildren(originId, nodes, edges) on a frame f = [w, nodes, edges]
\* holding the walker and the handler's local arrays
removeChildren(f, originId) ==
    LET w == f.w
        selectedId == IF w.selectedNode = Null THEN <<>> ELSE w.heap[w.selectedNode].id
        r == removeDescendantNodes(w.heap, originId, f.nodes)
        touches(e) == LET endIds == getEdgeEndIds(e.id)
                      IN  /\ Len(endIds) > 0
                          /\ (endIds[1] \in r.removedIds \/ endIds[2] \in r.removedIds)
        es == SelectSeq(f.edges, LAMBDA e : ~touches(e))
        w1 == IF selectedId # <<>> /\ selectedId \in r.removedIds
              THEN selectNode(w, w.heap[w.rootNode].id)
              ELSE w
    IN  [w |-> w1, nodes |-> r.nodes, edges |-> es]

\* ------------------------------------------------------------- expandNode
\* An optional Partial<filter> argument: given is FALSE for null/undefined.
NoOverride == [given |-> FALSE, props |-> EmptyObject]

Override(props) == [given |-> TRUE, props |-> props]

\* A subscription in flight (forkJoin emits once, when every query has
\* succeeded, and fails with the first query rejected): the closure of the
\* handlers (node, the local arrays nodes and edges, the filter objects outf,
\* inf, litf) and the filters as they were sent.
Subscription(kind, id, node, ns, es, outf, inf, litf, qouts, qins, qlits) ==
    [kind |-> kind, id |-> id, node |-> node, nodes |-> ns, edges |-> es,
     outf |-> outf, inf |-> inf, litf |-> litf,
     qouts |-> qouts, qins |-> qins, qlits |-> qlits]

\* expandNode up to and including forkJoin(...).subscribe(...)
expandNode(w, node, outFilter, inFilter) ==
    LET nd   == w.heap[node]
        nid  == getNodeNumericId(nd.id)
        outf == IF outFilter.given THEN nd.outFilter ELSE Alloc(w.fheap)
        fh1  == IF outFilter.given
                THEN [w.fheap EXCEPT ![outf] =
                        ObjectAssign(ObjectAssign(@, outFilter.props), [subjectId |-> nid])]
                ELSE Store(w.fheap, outf,
                           [pageNumber |-> 1, pageSize |-> PageSize, subjectId |-> nid])
        inf  == IF inFilter.given THEN nd.inFilter ELSE Alloc(fh1)
        fh2  == IF inFilter.given
                THEN [fh1 EXCEPT ![inf] =
                        ObjectAssign(ObjectAssign(@, inFilter.props), [objectId |-> nid])]
                ELSE Store(fh1, inf,
                           [pageNumber |-> 1, pageSize |-> PageSize, objectId |-> nid])
        w1   == toggleLoading([w EXCEPT !.fheap = fh2], TRUE)
    IN  [w1 EXCEPT !.pending = Append(@,
            Subscription("node", 0, node, w1.nodes, w1.edges, outf, inf, Null,
                         fh2[outf], fh2[inf], EmptyObject))]

\* nodes.some((n) => n.id === prop.id || n.id === aliasId)
OutboundGroupPresent(h, ns, propId, aliasId) ==
    \E i \in 1..Len(ns) : h[ns[i]].id = propId \/ h[ns[i]].id = aliasId

\* a test of the edge ids that finds nothing
InboundEdgePresent_never(es, predicateId, nodeId) == FALSE

\* edges.some((e) => r.test(e.id)) for the inbound group's regular expression
InboundEdgePresent(es, predicateId, nodeId) ==
    \E i \in 1..Len(es) : InboundEdgeRegex(predicateId, nodeId, es[i].id)

\* a test for a node id that finds nothing
HasNodeId_never(h, ns, id) == FALSE

\* nodes.some((n) => n.id === id)
HasNodeId(h, ns, id) == \E i \in 1..Len(ns) : h[ns[i]].id = id

\* the loop over result.outs.items, from item i on
RECURSIVE addOutboundGroups(_, _, _, _)
addOutboundGroups(f, node, items, i) ==
    IF i > Len(items) THEN f
    ELSE
    LET nd      == f.w.heap[node]
        group   == items[i]
        prop    == buildPropertyNode(nd.id, group)
        aliasId == <<"P">> \o NumStr(group.predicateId) \o <<"N">>
                       \o NumStr(getNodeNumericId(nd.originId))
        st      == StoreNode(f.w, prop)
        edge    == buildEdge(nd.id, prop.id, group.predicateUri, nd.id)
    IN  IF ~OutboundGroupPresent(f.w.heap, f.nodes, prop.id, aliasId)
        THEN addOutboundGroups([w |-> st.w, nodes |-> Append(f.nodes, st.addr),
                                edges |-> addEdgeIfAbsent(edge, f.edges)],
                               node, items, i + 1)
        ELSE addOutboundGroups(f, node, items, i + 1)

\* expandNode without its loop over the inbound groups
addInboundGroups_none(f, node, items, i) == f

\* the loop over result.ins.items, from item i on
RECURSIVE addInboundGroups(_, _, _, _)
addInboundGroups(f, node, items, i) ==
    IF i > Len(items) THEN f
    ELSE
    LET nd   == f.w.heap[node]
        g    == items[i]
        p    == buildPropertyNode(nd.id, g)
        edge == buildEdge(p.id, nd.id, g.predicateUri, nd.id)
        st   == StoreNode(f.w, p)
        f1   == IF ~HasNodeId(f.w.heap, f.nodes, p.id)
                THEN [f EXCEPT !.w = st.w, !.nodes = Append(f.nodes, st.addr)]
                ELSE f
    IN  IF ~InboundEdgePresent(f.edges, g.predicateId, nd.id)
        THEN addInboundGroups([f1 EXCEPT !.edges = addEdgeIfAbsent(edge, f.edges)],
                              node, items, i + 1)
        ELSE addInboundGroups(f, node, items, i + 1)

\* the next handler of expandNode's subscription s, then its complete handler
\* the next handler of expandNode recording the number of items on the page
expandNodeNext_pageCount(w, s) ==
    LET node == s.node
        outs == getTripleGroups(s.qouts)
        ins  == getTripleGroups(s.qins)
        w1 == [w EXCEPT !.heap[node].expanded = TRUE,
                        !.heap[node].outFilter = s.outf,
                        !.heap[node].inFilter = s.inf]
        f1 == removeChildren([w |-> w1, nodes |-> s.nodes, edges |-> s.edges],
                             w1.heap[node].id)
        f2 == addOutboundGroups([f1 EXCEPT !.w.heap[node].outTotal = Len(outs.items)],
                                node, outs.items, 1)
        f3 == addInboundGroups([f2 EXCEPT !.w.heap[node].inTotal = Len(ins.items)],
                               node, ins.items, 1)
    IN  toggleLoading([f3.w EXCEPT !.nodes = f3.nodes, !.edges = f3.edges], FALSE)

expandNodeNext(w, s) ==
    LET node == s.node
        outs == getTripleGroups(s.qouts)
        ins  == getTripleGroups(s.qins)
        w1 == [w EXCEPT !.heap[node].expanded = TRUE,
                        !.heap[node].outFilter = s.outf,
                        !.heap[node].inFilter = s.inf]
        f1 == removeChildren([w |-> w1, nodes |-> s.nodes, edges |-> s.edges],
                             w1.heap[node].id)
        f2 == addOutboundGroups([f1 EXCEPT !.w.heap[node].outTotal = outs.total],
                                node, outs.items, 1)
        f3 == addInboundGroups([f2 EXCEPT !.w.heap[node].inTotal = ins.total],
                               node, ins.items, 1)
    IN  toggleLoading([f3.w EXCEPT !.nodes = f3.nodes, !.edges = f3.edges], FALSE)

\* the error handler of expandNode merging the outbound groups all the same
expandNodeError_mergingOuts(w, s, err) ==
    LET outs == getTripleGroups(s.qouts)
        w1 == [w EXCEPT !.heap[s.node].error = "Error loading properties",
                        !.heap[s.node].outTotal = outs.total]
        f  == addOutboundGroups([w |-> w1, nodes |-> s.nodes, edges |-> s.edges],
                                s.node, outs.items, 1)
    IN  setError([f.w EXCEPT !.nodes = f.nodes, !.edges = f.edges], err)

\* the error handler of expandNode's subscription s
expandNodeError(w, s, err) ==
    setError([w EXCEPT !.heap[s.node].error = "Error loading properties",
                       !.nodes = s.nodes],
             err)

\* --------------------------------------------------------- expandProperty
\* expandProperty up to and including forkJoin(...).subscribe(...)
expandProperty(w, node, outFilter, inFilter, litFilter) ==
    LET nd   == w.heap[node]
        nid  == getNodeNumericId(nd.id)
        outf == nd.outFilter
        inf  == nd.inFilter
        litf == nd.litFilter
        fh1  == [w.fheap EXCEPT ![outf] =
                    ObjectAssign(ObjectAssign(@, outFilter.props), [isObject |-> TRUE])]
        fh2  == [fh1 EXCEPT ![inf] =
                    ObjectAssign(ObjectAssign(@, inFilter.props), [isObject |-> FALSE])]
        fh3  == [fh2 EXCEPT ![litf] =
                    ObjectAssign(ObjectAssign(@, litFilter.props),
                                 [subjectId |-> nid,
                                  predicateId |-> getPredicateNumericId(nd.id)])]
        w1   == toggleLoading([w EXCEPT !.fheap = fh3], TRUE)
    IN  [w1 EXCEPT !.pending = Append(@,
            Subscription("prop", 0, node, w1.nodes, w1.edges, outf, inf, litf,
                         fh3[outf], fh3[inf], fh3[litf]))]

\* lit.data.literalType || '' : WalkerLitData has no literalType property
LiteralEdgeLabel(lit) ==
    IF "literalType" \in DOMAIN lit /\ lit.literalType # "" THEN lit.literalType ELSE ""

\* the loops of expandProperty pushing the child nodes without their edges
RECURSIVE addLinked_nodesOnly(_, _, _, _, _)
addLinked_nodesOnly(f, node, items, i, kind) ==
    IF i > Len(items) THEN f
    ELSE
    LET nd    == f.w.heap[node]
        child == IF kind = "lits" THEN buildLiteralNode(nd.id, items[i])
                 ELSE buildNonLiteralNode(nd.id, items[i])
        st    == StoreNode(f.w, child)
    IN  addLinked_nodesOnly(
            IF \E k \in 1..Len(f.nodes) : f.w.heap[f.nodes[k]].id = child.id THEN f
            ELSE [f EXCEPT !.w = st.w, !.nodes = Append(f.nodes, st.addr)],
            node, items, i + 1, kind)

\* one of the three loops over a result's items, from item i on: the child
\* node built from the item is pushed unless its id is present, and the edge
\* between the group node and the child is added if absent
RECURSIVE addLinked(_, _, _, _, _)
addLinked(f, node, items, i, kind) ==
    IF i > Len(items) THEN f
    ELSE
    LET nd    == f.w.heap[node]
        child == IF kind = "lits" THEN buildLiteralNode(nd.id, items[i])
                 ELSE buildNonLiteralNode(nd.id, items[i])
        st    == StoreNode(f.w, child)
        f1    == IF ~HasNodeId(f.w.heap, f.nodes, child.id)
                 THEN [f EXCEPT !.w = st.w, !.nodes = Append(f.nodes, st.addr)]
                 ELSE f
        edge  == IF kind = "outs" THEN buildEdge(nd.id, child.id, "", nd.id)
                 ELSE IF kind = "ins" THEN buildEdge(child.id, nd.id, "", nd.id)
                 ELSE buildEdge(nd.id, child.id, LiteralEdgeLabel(child), nd.id)
    IN  addLinked([f1 EXCEPT !.edges = addEdgeIfAbsent(edge, f.edges)],
                  node, items, i + 1, kind)

\* the next handler of expandProperty's subscription s, then its complete handler
expandPropertyNext(w, s) ==
    LET node == s.node
        outs == getLinkedNodes(s.qouts)
        ins  == getLinkedNodes(s.qins)
        lits == getLinkedLiterals(s.qlits)
        w1 == [w EXCEPT !.heap[node].expanded = TRUE,
                        !.heap[node].outFilter = s.outf,
                        !.heap[node].inFilter = s.inf,
                        !.heap[node].litFilter = s.litf]
        f1 == removeChildren([w |-> w1, nodes |-> s.nodes, edges |-> s.edges],
                             w1.heap[node].id)
        f2 == addLinked([f1 EXCEPT !.w.heap[node].outTotal = outs.total],
                        node, outs.items, 1, "outs")
        f3 == addLinked([f2 EXCEPT !.w.heap[node].inTotal = ins.total],
                        node, ins.items, 1, "ins")
        f4 == addLinked([f3 EXCEPT !.w.heap[node].litTotal = lits.total],
                        node, lits.items, 1, "lits")
    IN  toggleLoading([f4.w EXCEPT !.nodes = f4.nodes, !.edges = f4.edges], FALSE)

\* the error handler of expandProperty's subscription s
expandPropertyError(w, s, err) ==
    setError([w EXCEPT !.heap[s.node].error = "Error loading nodes",
                       !.nodes = s.nodes],
             err)

\* ------------------------------------------------------------------ reset
\* reset up to and including subscribe(...)
reset(w, id) ==
    LET w1 == toggleLoading(w, TRUE)
    IN  [w1 EXCEPT !.pending = Append(@,
            Subscription("reset", id, Null, <<>>, <<>>, Null, Null, Null,
                         EmptyObject, EmptyObject, EmptyObject))]

\* reset's next handler without this._edges$.next([])
resetNext_keepEdges(w, s) ==
    LET st == StoreNode(w, buildRootNode(s.id))
        w1 == [st.w EXCEPT !.rootNode = st.addr, !.nodes = <<st.addr>>]
        w2 == expandNode(w1, st.addr, NoOverride, NoOverride)
    IN  toggleLoading(w2, FALSE)

\* the next handler of reset's subscription, then its complete handler
resetNext(w, s) ==
    LET st == StoreNode(w, buildRootNode(s.id))
        w1 == [st.w EXCEPT !.rootNode = st.addr, !.edges = <<>>,
                           !.nodes = <<st.addr>>]
        w2 == expandNode(w1, st.addr, NoOverride, NoOverride)
    IN  toggleLoading(w2, FALSE)

\* the error handler of reset clearing the working set as well
resetError_clearing(w, s, err) ==
    setError([w EXCEPT !.nodes = <<>>, !.edges = <<>>, !.selectedNode = Null], err)

\* the error handler of reset's subscription
resetError(w, s, err) == setError(w, err)

\* ------------------------------------------------------ the other methods
expandSelectedNode(w, outFilter, inFilter) ==
    IF w.selectedNode = Null \/ CharAt0(w.heap[w.selectedNode].id) # "N" THEN w
    ELSE expandNode(w, w.selectedNode, outFilter, inFilter)

expandSelectedProperty(w, outFilter, inFilter, litFilter) ==
    IF w.selectedNode = Null \/ CharAt0(w.heap[w.selectedNode].id) # "P" THEN w
    ELSE expandProperty(w, w.selectedNode, outFilter, inFilter, litFilter)

\* toggleNode expanding every node that is not expanded as an entity node
toggleNode_entityOnly(w, node) ==
    IF w.heap[node].expanded
    THEN LET f == removeChildren([w |-> w, nodes |-> w.nodes, edges |-> w.edges],
                                 w.heap[node].id)
         IN  [f.w EXCEPT !.heap[node].expanded = FALSE,
                         !.nodes = f.nodes, !.edges = f.edges]
    ELSE expandNode(w, node, NoOverride, NoOverride)

toggleNode(w, node) ==
    IF w.heap[node].expanded
    THEN LET f == removeChildren([w |-> w, nodes |-> w.nodes, edges |-> w.edges],
                                 w.heap[node].id)
         IN  [f.w EXCEPT !.heap[node].expanded = FALSE,
                         !.nodes = f.nodes, !.edges = f.edges]
    ELSE IF CharAt0(w.heap[node].id) = "N"
         THEN expandNode(w, node, NoOverride, NoOverride)
    ELSE IF CharAt0(w.heap[node].id) = "P"
         THEN expandProperty(w, node, NoOverride, NoOverride, NoOverride)
    ELSE w

\* ------------------------------------------------------ garbage collection
Range(seq) == { seq[i] : i \in 1..Len(seq) }

\* Objects nothing refers to any more are dropped, and the objects left are
\* addressed in the order in which the walker's references reach them, so
\* that a state does not depend on the addresses the allocator happened to use.
RECURSIVE Uniq(_, _)
Uniq(seq, seen) ==
    IF seq = <<>> THEN <<>>
    ELSE IF Head(seq) \in seen THEN Uniq(Tail(seq), seen)
    ELSE <<Head(seq)>> \o Uniq(Tail(seq), seen \cup {Head(seq)})

RECURSIVE Flatten(_)
Flatten(seqs) == IF seqs = <<>> THEN <<>> ELSE Head(seqs) \o Flatten(Tail(seqs))

\* the node objects some reference still reaches
LiveNodes(w) ==
    Uniq(w.nodes \o <<w.rootNode, w.selectedNode>>
           \o Flatten([i \in 1..Len(w.pending) |->
                         <<w.pending[i].node>> \o w.pending[i].nodes]),
         {Null})

\* the filter objects some reference still reaches
LiveFilters(w) ==
    LET live == LiveNodes(w)
    IN  Uniq(Flatten([i \in 1..Len(live) |->
                        <<w.heap[live[i]].outFilter, w.heap[live[i]].inFilter,
                          w.heap[live[i]].litFilter>>])
               \o <<w.slots.nOut, w.slots.nIn, w.slots.pOut, w.slots.pIn, w.slots.pLit>>
               \o Flatten([i \in 1..Len(w.pending) |->
                             <<w.pending[i].outf, w.pending[i].inf, w.pending[i].litf>>]),
             {Null})

\* the new address of each object of the sequence live, and of Null
Moved(live) ==
    [a \in Range(live) \cup {Null} |->
        IF a = Null THEN Null ELSE CHOOSE i \in 1..Len(live) : live[i] = a]

\* the walker without the objects nothing refers to any more
Collect(w) ==
    LET ln == LiveNodes(w)
        lf == LiveFilters(w)
        n  == Moved(ln)
        f  == Moved(lf)
    IN  [w EXCEPT
           !.heap = [i \in 1..Len(ln) |->
                       [w.heap[ln[i]] EXCEPT !.outFilter = f[@], !.inFilter = f[@],
                                             !.litFilter = f[@]]],
           !.fheap = [i \in 1..Len(lf) |-> w.fheap[lf[i]]],
           !.nodes = [i \in 1..Len(w.nodes) |-> n[w.nodes[i]]],
           !.rootNode = n[@],
           !.selectedNode = n[@],
           !.slots = [k \in DOMAIN w.slots |-> f[w.slots[k]]],
           !.pending = [i \in 1..Len(w.pending) |->
                          [w.pending[i] EXCEPT
                             !.node = n[@],
                             !.nodes = [j \in 1..Len(w.pending[i].nodes) |->
                                          n[w.pending[i].nodes[j]]],
                             !.outf = f[@], !.inf = f[@], !.litf = f[@]]]]

\* ---------------------------------------------------------------- actions
RemoveAt(seq, i) == SubSeq(seq, 1, i - 1) \o SubSeq(seq, i + 1, Len(seq))

\* the overrides a host passes to expandSelectedNode / expandSelectedProperty
Overrides == { Override([pageNumber |-> 2]) }

\* overrides that carry keys naming another anchor, predicate or role
\* (Partial<TripleFilter>, Partial<LinkedNodeFilter>, Partial<LinkedLiteralFilter>)
ForeignNodeOverrides == { Override([subjectId |-> 2, objectId |-> 2]) }

ForeignLinkOverrides == { Override([otherNodeId |-> 2, predicateId |-> 9]) }

ForeignLiteralOverrides == { Override([subjectId |-> 2, predicateId |-> 9]) }

\* what a step leaves in last: the handler, the id of its node, and for a next
\* handler the ids (predicates, entities, triples) of the items it received
\* and whether it expands the root node from the working set reset leaves
NoResult == [outs |-> <<>>, ins |-> <<>>, lits |-> <<>>, root |-> FALSE, sel |-> <<>>,
             newer |-> FALSE, totals |-> <<>>, stored |-> <<>>, filters |-> <<>>]

\* the values of the filters node a retains (data.outFilter, data.inFilter,
\* data.litFilter), a filter the node does not have showing as [none |-> TRUE]
RetainedFilters(w, a) ==
    LET val(f) == IF f = Null THEN [none |-> TRUE] ELSE w.fheap[f]
    IN  <<val(w.heap[a].outFilter), val(w.heap[a].inFilter), val(w.heap[a].litFilter)>>

Ids(items, key) == [i \in 1..Len(items) |-> items[i][key]]

Commit(w0, op, id, res) ==
    \E w \in {Collect(w0)} :
        /\ heap' = w.heap
        /\ fheap' = w.fheap
        /\ nodes' = w.nodes
        /\ edges' = w.edges
        /\ loading' = w.loading
        /\ error' = w.error
        /\ rootNode' = w.rootNode
        /\ selectedNode' = w.selectedNode
        /\ slots' = w.slots
        /\ childTotals' = w.childTotals
        /\ pending' = w.pending
        /\ last' = [op |-> op, id |-> id, res |-> res]

Init ==
    /\ heap = <<>>
    /\ fheap = <<>>
    /\ nodes = <<>>
    /\ edges = <<>>
    /\ loading = FALSE
    /\ error = ""
    /\ rootNode = Null
    /\ selectedNode = Null
    /\ slots = NoFilters
    /\ childTotals = NoTotals
    /\ pending = <<>>
    /\ ops = 0
    /\ last = [op |-> "init", id |-> <<>>, res |-> NoResult]

\* the host calls reset(id)
CallReset(id) ==
    /\ Len(pending) < MaxPending
    /\ ops' = ops + 1
    /\ Commit(reset(Walker, id), "reset", buildNodeId(id), NoResult)

\* the host calls selectNode(id): a node on display, null, or an absent id
CallSelectNode(id) ==
    /\ ops' = ops + 1
    /\ Commit(selectNode(Walker, id), "select", id, NoResult)

\* the host calls toggleNode(node) for a node on display that is expanded
CallCollapse(a) ==
    /\ heap[a].expanded
    /\ ops' = ops + 1
    /\ Commit(toggleNode(Walker, a), "collapse", heap[a].id,
              [NoResult EXCEPT !.sel = IF selectedNode = Null THEN <<>>
                                       ELSE heap[selectedNode].id])

\* the host calls toggleNode(node) for a node on display that is not expanded
CallExpand(a) ==
    /\ ~heap[a].expanded
    /\ Len(pending) < MaxPending
    /\ ops' = ops + 1
    /\ Commit(toggleNode(Walker, a), "expand", heap[a].id,
              [NoResult EXCEPT !.filters = RetainedFilters(Walker, a)])

\* the host calls expandSelectedNode
CallExpandSelectedNode(outFilter, inFilter) ==
    /\ Len(pending) < MaxPending
    /\ selectedNode # Null
    /\ ops' = ops + 1
    /\ Commit(expandSelectedNode(Walker, outFilter, inFilter),
              "expandSelectedNode", heap[selectedNode].id,
              [NoResult EXCEPT !.filters = RetainedFilters(Walker, selectedNode)])

\* the host calls expandSelectedProperty
CallExpandSelectedProperty(outFilter, inFilter, litFilter) ==
    /\ Len(pending) < MaxPending
    /\ selectedNode # Null
    /\ ops' = ops + 1
    /\ Commit(expandSelectedProperty(Walker, outFilter, inFilter, litFilter),
              "expandSelectedProperty", heap[selectedNode].id,
              [NoResult EXCEPT !.filters = RetainedFilters(Walker, selectedNode)])

\* every query of subscription i has succeeded: next, then complete
Completes(i) ==
    LET s == pending[i]
        w == [Walker EXCEPT !.pending = RemoveAt(@, i)]
        \* the expanded node object as the handler leaves it
        nd(w1) == w1.heap[s.node]
    IN  /\ UNCHANGED ops
        /\ \/ /\ s.kind = "reset"
              /\ Commit(resetNext(w, s), "resetNext", buildNodeId(s.id), NoResult)
           \/ /\ s.kind = "node"
              /\ Commit(expandNodeNext(w, s), "expandNodeNext", heap[s.node].id,
                        [outs |-> Ids(getTripleGroups(s.qouts).items, "predicateId"),
                         ins |-> Ids(getTripleGroups(s.qins).items, "predicateId"),
                         lits |-> <<>>,
                         root |-> (s.node = rootNode /\ s.nodes = <<rootNode>>
                                     /\ s.edges = <<>>),
                         sel |-> <<>>,
                         newer |-> FALSE,
                         totals |-> <<getTripleGroups(s.qouts).total,
                                      getTripleGroups(s.qins).total>>,
                         stored |-> <<nd(expandNodeNext(w, s)).outTotal,
                                      nd(expandNodeNext(w, s)).inTotal>>])
           \/ /\ s.kind = "prop"
              /\ Commit(expandPropertyNext(w, s), "expandPropertyNext", heap[s.node].id,
                        [outs |-> Ids(getLinkedNodes(s.qouts).items, "id"),
                         ins |-> Ids(getLinkedNodes(s.qins).items, "id"),
                         lits |-> Ids(getLinkedLiterals(s.qlits).items, "id"),
                         root |-> FALSE,
                         sel |-> <<>>,
                         newer |-> FALSE,
                         totals |-> <<getLinkedNodes(s.qouts).total,
                                      getLinkedNodes(s.qins).total,
                                      getLinkedLiterals(s.qlits).total>>,
                         stored |-> <<nd(expandPropertyNext(w, s)).outTotal,
                                      nd(expandPropertyNext(w, s)).inTotal,
                                      nd(expandPropertyNext(w, s)).litTotal>>])

\* a query of subscription i is rejected: error, and no complete
Fails(i, err) ==
    LET s == pending[i]
        w == [Walker EXCEPT !.pending = RemoveAt(@, i)]
        res == [NoResult EXCEPT !.newer = (i < Len(pending))]
    IN  /\ UNCHANGED ops
        /\ \/ /\ s.kind = "reset"
              /\ Commit(resetError(w, s, err), "resetError", buildNodeId(s.id), res)
           \/ /\ s.kind = "node"
              /\ Commit(expandNodeError(w, s, err), "expandNodeError", heap[s.node].id,
                        [res EXCEPT !.filters =
                            RetainedFilters(expandNodeError(w, s, err), s.node)])
           \/ /\ s.kind = "prop"
              /\ Commit(expandPropertyError(w, s, err), "expandPropertyError",
                        heap[s.node].id,
                        [res EXCEPT !.filters =
                            RetainedFilters(expandPropertyError(w, s, err), s.node)])

\* the calls of a host that has made fewer than MaxOps calls
Reset(id) == ops < MaxOps /\ CallReset(id)

SelectNode(id) == ops < MaxOps /\ CallSelectNode(id)

Collapse(a) == ops < MaxOps /\ CallCollapse(a)

Expand(a) == ops < MaxOps /\ CallExpand(a)

ExpandSelectedNode(outFilter, inFilter) == ops < MaxOps /\ CallExpandSelectedNode(outFilter, inFilter)

ExpandSelectedProperty(outFilter, inFilter, litFilter) == ops < MaxOps /\ CallExpandSelectedProperty(outFilter, inFilter, litFilter)

Next ==
    \/ \E id \in RootIds : Reset(id)
    \/ \E id \in { heap[nodes[i]].id : i \in 1..Len(nodes) } \cup {<<>>, buildNodeId(9)} :
          SelectNode(id)
    \/ \E i \in 1..Len(nodes) : Collapse(nodes[i])
    \/ \E i \in 1..Len(nodes) : Expand(nodes[i])
    \/ \E o \in Overrides \cup {NoOverride} : ExpandSelectedNode(o, NoOverride)
    \/ \E o \in Overrides : ExpandSelectedNode(NoOverride, o)
    \/ \E o \in ForeignNodeOverrides : ExpandSelectedNode(o, o)
    \/ \E o \in Overrides \cup {NoOverride} :
          ExpandSelectedProperty(o, NoOverride, NoOverride)
    \/ \E o \in Overrides : ExpandSelectedProperty(NoOverride, o, NoOverride)
    \/ \E o \in Overrides : ExpandSelectedProperty(NoOverride, NoOverride, o)
    \/ \E o \in ForeignLinkOverrides : ExpandSelectedProperty(o, NoOverride, NoOverride)
    \/ \E o \in ForeignLiteralOverrides :
          ExpandSelectedProperty(NoOverride, NoOverride, o)
    \/ \E i \in 1..Len(pending) : Completes(i)
    \/ \E i \in 1..Len(pending), err \in ErrorValues : Fails(i, err)

Spec == Init /\ [][Next]_vars

\* ------------------------------------------------- one request at a time
\* The walker under a host that makes a call only when every request has
\* settled: the calls and handlers are those of Spec, without overlapping
\* requests and with a longer sequence of calls.
SeqRootIds == {1}

\* no request is in flight and fewer than n calls have been made
Settled(n) == ops < n /\ pending = <<>>

SeqReset(id) == Settled(MaxSeqOps) /\ CallReset(id)

SeqSelectNode(id) == Settled(MaxSeqOps) /\ CallSelectNode(id)

SeqCollapse(a) == Settled(MaxSeqOps) /\ CallCollapse(a)

SeqExpand(a) == Settled(MaxSeqOps) /\ CallExpand(a)

SeqExpandSelectedNode(outFilter, inFilter) ==
    Settled(MaxSeqOps) /\ CallExpandSelectedNode(outFilter, inFilter)

SeqExpandSelectedProperty(outFilter, inFilter, litFilter) ==
    Settled(MaxSeqOps) /\ CallExpandSelectedProperty(outFilter, inFilter, litFilter)

SeqNext ==
    \/ \E id \in SeqRootIds : SeqReset(id)
    \/ \E i \in 1..Len(nodes) : SeqSelectNode(heap[nodes[i]].id)
    \/ \E i \in 1..Len(nodes) : SeqCollapse(nodes[i])
    \/ \E i \in 1..Len(nodes) : SeqExpand(nodes[i])
    \/ \E o \in Overrides : SeqExpandSelectedNode(o, NoOverride)
    \/ \E o \in Overrides : SeqExpandSelectedNode(NoOverride, o)
    \/ \E o \in Overrides : SeqExpandSelectedProperty(o, NoOverride, NoOverride)
    \/ \E o \in Overrides : SeqExpandSelectedProperty(NoOverride, o, NoOverride)
    \/ \E o \in Overrides : SeqExpandSelectedProperty(NoOverride, NoOverride, o)
    \/ \E i \in 1..Len(pending) : Completes(i)
    \/ \E i \in 1..Len(pending), err \in ErrorValues : Fails(i, err)

SeqSpec == Init /\ [][SeqNext]_vars

\* ------------------------------------------------- resets at any moment
\* The walker under a host whose nodeId input may change, and so call
\* reset, while requests are in flight; its other calls are made when every
\* request has settled.
RebindReset(id) == ops < MaxRebindOps /\ CallReset(id)

RebindSelectNode(id) == Settled(MaxRebindOps) /\ CallSelectNode(id)

RebindCollapse(a) == Settled(MaxRebindOps) /\ CallCollapse(a)

RebindExpand(a) == Settled(MaxRebindOps) /\ CallExpand(a)

RebindNext ==
    \/ \E id \in RootIds : RebindReset(id)
    \/ \E i \in 1..Len(nodes) : RebindSelectNode(heap[nodes[i]].id)
    \/ \E i \in 1..Len(nodes) : RebindCollapse(nodes[i])
    \/ \E i \in 1..Len(nodes) : RebindExpand(nodes[i])
    \/ \E i \in 1..Len(pending) : Completes(i)
    \/ \E i \in 1..Len(pending), err \in ErrorValues : Fails(i, err)

RebindSpec == Init /\ [][RebindNext]_vars

\* ================================================================ claims
\* the ids of the published nodes, in the array's order, and as a set
NodeIdSeq == [i \in 1..Len(nodes) |-> heap[nodes[i]].id]

NodeIds == Range(NodeIdSeq)

EdgeIds == { edges[i].id : i \in 1..Len(edges) }

\* an edge from source to target is in the edge collection
HasEdge(source, target) ==
    \E i \in 1..Len(edges) : edges[i].source = source /\ edges[i].target = target

\* the node objects of the array ns with the given id
NodesWithId(h, ns, id) == { a \in Range(ns) : h[a].id = id }

\* ---- C1
\* C1: once every query issued by reset, expandNode or expandProperty has
\* settled, by success or by rejection, and nothing further was started, the
\* loading flag is false.  A rejection runs the error handler only, and no
\* error handler clears the flag, so the flag stays true for ever.
C1_LoadingClearedWhenSettled == (pending = <<>>) => ~loading

\* ---- C2
\* C2: the step in which reset(E)'s entity fetch succeeds publishes exactly
\* one node, N{E} with an empty originId, and no edge, whatever was published
\* before.
C2_ResetPublishesRootOnly ==
    last.op = "resetNext" =>
        /\ Len(nodes) = 1
        /\ heap[nodes[1]].id = last.id
        /\ heap[nodes[1]].originId = <<>>
        /\ nodes[1] = rootNode
        /\ edges = <<>>

\* a reset has succeeded over a working set that had a selected node
C2_Witness ==
    /\ last.op = "resetNext"
    /\ selectedNode # Null
    /\ selectedNode # rootNode
    /\ Len(nodes) = 1

\* ---- C3
\* C3: when the expansion of the root node N{E} that reset starts (from the
\* working set of the root alone) has succeeded, the published nodes hold
\* P{p}N{E} for every predicate p of the outbound and of the inbound groups
\* received, and the root node is among them and marked expanded.
C3_RootExpansionAddsGroups ==
    (last.op = "expandNodeNext" /\ last.res.root) =>
        /\ \A p \in Range(last.res.outs) \cup Range(last.res.ins) :
              buildPropertyId(p, getNodeNumericId(last.id)) \in NodeIds
        /\ rootNode \in Range(nodes)
        /\ heap[rootNode].id = last.id
        /\ heap[rootNode].expanded

\* the root's expansion has succeeded with outbound and inbound groups
C3_Witness ==
    /\ last.op = "expandNodeNext"
    /\ last.res.root
    /\ Range(last.res.outs) \ Range(last.res.ins) # {}
    /\ Range(last.res.ins) # {}
    /\ \A p \in Range(last.res.outs) \cup Range(last.res.ins) :
          buildPropertyId(p, getNodeNumericId(last.id)) \in NodeIds

\* ---- C4
\* the origin chain of the published node with this id leads back to x
RECURSIVE LeadsBack(_, _, _)
LeadsBack(id, x, n) ==
    /\ n > 0
    /\ \E i \in 1..Len(nodes) :
          /\ heap[nodes[i]].id = id
          /\ \/ heap[nodes[i]].originId = x
             \/ LeadsBack(heap[nodes[i]].originId, x, n - 1)

OriginSubtree(x) == { id \in NodeIds : LeadsBack(id, x, Len(nodes)) }

\* C4: toggleNode on an expanded node X leaves exactly the nodes whose origin
\* chain does not lead back to X, in their order, and exactly the edges with
\* neither end among the removed nodes, and X is not expanded afterwards.
C4_CollapseRemovesOriginSubtree ==
    [][ last'.op = "collapse" =>
          LET removed == OriginSubtree(last'.id)
          IN  /\ last'.id \notin removed
              /\ NodeIdSeq' = SelectSeq(NodeIdSeq, LAMBDA id : id \notin removed)
              /\ edges' = SelectSeq(edges, LAMBDA e : e.source \notin removed
                                                      /\ e.target \notin removed)
              /\ \A a \in NodesWithId(heap', nodes', last'.id) : ~heap'[a].expanded ]_vars

\* a property-group node that had been expanded has been collapsed: the other
\* group nodes and the root are still there, the group's edges to its
\* children are gone
C4_Witness ==
    /\ last.op = "collapse"
    /\ CharAt0(last.id) = "P"
    /\ pending = <<>>
    /\ Len(nodes) >= 3
    /\ \A i \in 1..Len(edges) : CharAt0(edges[i].source) = "N" /\ CharAt0(edges[i].target) = "P"

\* ---- C5
\* C5: the edge collection never holds an edge together with its inverse.
C5_NoInverseEdges ==
    \A i, j \in 1..Len(edges) :
        i # j => ~(edges[i].source = edges[j].target /\ edges[i].target = edges[j].source)

\* a node has been expanded whose outbound and inbound groups share a
\* predicate, and the edge from the node to that group is there
C5_Witness ==
    /\ last.op = "expandNodeNext"
    /\ \E p \in Range(last.res.outs) \cap Range(last.res.ins) :
          HasEdge(last.id, buildPropertyId(p, getNodeNumericId(last.id)))

\* ---- C6
\* C6: no two published nodes share an id, and no two edges share an id.
C6_UniqueIds ==
    /\ \A i, j \in 1..Len(nodes) : heap[nodes[i]].id = heap[nodes[j]].id => i = j
    /\ \A i, j \in 1..Len(edges) : edges[i].id = edges[j].id => i = j

\* an entity node has been reached from two property-group nodes: the
\* second expansion found its id present and added an edge only
C6_Witness ==
    /\ last.op = "expandPropertyNext"
    /\ \E i, j \in 1..Len(edges) :
          /\ edges[i].target = edges[j].source
          /\ CharAt0(edges[i].target) = "N"
          /\ CharAt0(edges[i].source) = "P"
          /\ CharAt0(edges[j].target) = "P"
          /\ edges[i].source # edges[j].target
          /\ \E n \in NodesWithId(heap, nodes, edges[i].target) : heap[n].originId # <<>>

\* ---- C7
\* C7: when the only subscription in flight is an expandNode of a published,
\* unexpanded node X, nothing was published since it was called, and one of
\* its queries is rejected, then X is still not expanded, X's error flag is
\* set, the published error message is not empty, and the ids of the nodes
\* and of the edges are those of before the call.
C7_FailedExpandLeavesWorkingSet ==
    [][ ( /\ last'.op = "expandNodeError"
          /\ Len(pending) = 1
          /\ pending[1].nodes = nodes
          /\ pending[1].edges = edges
          /\ pending[1].node \in Range(nodes)
          /\ ~heap[pending[1].node].expanded )
        =>
        ( /\ NodesWithId(heap', nodes', last'.id) # {}
          /\ \A a \in NodesWithId(heap', nodes', last'.id) :
                ~heap'[a].expanded /\ heap'[a].error # ""
          /\ error' # ""
          /\ NodeIds' = { heap[pending[1].nodes[i]].id : i \in 1..Len(pending[1].nodes) }
          /\ EdgeIds' = { pending[1].edges[i].id : i \in 1..Len(pending[1].edges) } ) ]_vars

\* an expansion of an unexpanded node with siblings has failed
C7_Witness ==
    /\ last.op = "expandNodeError"
    /\ pending = <<>>
    /\ error # ""
    /\ Len(nodes) >= 3
    /\ \E a \in NodesWithId(heap, nodes, last.id) : ~heap[a].expanded /\ heap[a].error # ""

\* ---- C8
\* the ids of the published property-group nodes of predicate p
GroupIds(p) == { id \in NodeIds : CharAt0(id) = "P" /\ getPredicateNumericId(id) = p }

\* an edge joins a and b, in one direction (the edge collection keeps one
\* edge for a pair of ends, C5)
Joined(a, b) == HasEdge(a, b) \/ HasEdge(b, a)

\* C8: after a successful expandNode of X there is, for every outbound group
\* received, a property-group node of its predicate with the edge from X to
\* it, and for every inbound group a property-group node of its predicate
\* with the edge from it to X.  The edge is accepted in either direction,
\* since the inverse of an edge present is never added; even so, an outbound
\* group is left without node and edge when the alias id matches a group
\* node of X's origin's origin.
C8_ExpandLinksEveryGroup ==
    last.op = "expandNodeNext" =>
        /\ \A p \in Range(last.res.outs) : \E g \in GroupIds(p) : Joined(last.id, g)
        /\ \A p \in Range(last.res.ins) : \E g \in GroupIds(p) : Joined(g, last.id)

\* ---- C9
\* C9 as stated: after a successful expandProperty of G, node N{e} and edge
\* G->N{e} for every outbound entity e, node N{e} and edge N{e}->G for every
\* inbound entity e, node L{t} and edge G->L{t} for every literal t.
C9_ExpandPropertyLinksChildren ==
    last.op = "expandPropertyNext" =>
        /\ \A e \in Range(last.res.outs) :
              <<"N">> \o NumStr(e) \in NodeIds /\ HasEdge(last.id, <<"N">> \o NumStr(e))
        /\ \A e \in Range(last.res.ins) :
              <<"N">> \o NumStr(e) \in NodeIds /\ HasEdge(<<"N">> \o NumStr(e), last.id)
        /\ \A t \in Range(last.res.lits) :
              <<"L">> \o NumStr(t) \in NodeIds /\ HasEdge(last.id, <<"L">> \o NumStr(t))

\* C9 amended: the same, except that where the edge collection holds the
\* inverse of an entity's edge (an entity on both sides of G), that inverse
\* stands for the edge.
C9_ExpandPropertyLinksChildrenOnce ==
    last.op = "expandPropertyNext" =>
        /\ \A e \in Range(last.res.outs) \cup Range(last.res.ins) :
              <<"N">> \o NumStr(e) \in NodeIds /\ Joined(last.id, <<"N">> \o NumStr(e))
        /\ \A e \in Range(last.res.outs) \ Range(last.res.ins) :
              HasEdge(last.id, <<"N">> \o NumStr(e))
        /\ \A e \in Range(last.res.ins) \ Range(last.res.outs) :
              HasEdge(<<"N">> \o NumStr(e), last.id)
        /\ \A t \in Range(last.res.lits) :
              <<"L">> \o NumStr(t) \in NodeIds /\ HasEdge(last.id, <<"L">> \o NumStr(t))

\* a group has been expanded into an outbound entity, an inbound entity
\* that is not outbound, and a literal
C9_Witness ==
    /\ last.op = "expandPropertyNext"
    /\ Range(last.res.outs) # {}
    /\ Range(last.res.ins) \ Range(last.res.outs) # {}
    /\ \E e \in Range(last.res.ins) \cap Range(last.res.outs) :
          HasEdge(last.id, <<"N">> \o NumStr(e))

\* a group has been expanded into a literal and an outbound entity
C9_WitnessLiteral ==
    /\ last.op = "expandPropertyNext"
    /\ \E t \in Range(last.res.lits) : HasEdge(last.id, <<"L">> \o NumStr(t))
    /\ \E e \in Range(last.res.outs) : HasEdge(last.id, <<"N">> \o NumStr(e))

\* ---- C10
\* C10: when Y has been expanded, Y being joined to the published group node
\* P{p}N{X} it was reached from, a node P{p}N{Y} is there only if Y was
\* reached as a subject (edge Y -> P{p}N{X}, showing Y p X) and p is among
\* the inbound groups received for Y, which hold the triples with object Y:
\* none is added for the triple P{p}N{X} shows.
C10_NoSecondGroupNode ==
    last.op = "expandNodeNext" =>
        \A a \in NodesWithId(heap, nodes, last.id) :
            LET g == heap[a].originId
                p == getPredicateNumericId(g)
                y == getNodeNumericId(last.id)
            IN  ( /\ g # <<>>
                  /\ g \in NodeIds
                  /\ Joined(g, last.id)
                  /\ <<"P">> \o NumStr(p) \o <<"N">> \o NumStr(y) \in NodeIds )
                => ( HasEdge(last.id, g) /\ p \in Range(last.res.ins) )

\* Y has been expanded, reached as an object from X through P{p}N{X}; both
\* the outbound and the inbound groups of Y hold p, and P{p}N{X} is the one
\* group node of p
C10_Witness ==
    /\ last.op = "expandNodeNext"
    /\ \E a \in NodesWithId(heap, nodes, last.id) :
          LET g == heap[a].originId
              p == getPredicateNumericId(g)
          IN  /\ g # <<>>
              /\ g \in NodeIds
              /\ HasEdge(g, last.id)
              /\ p \in Range(last.res.outs) \cap Range(last.res.ins)
              /\ GroupIds(p) = {g}

\* ---------------------------------------------------------------- C11
\* C11: when toggleNode collapses node X while the selected node is an
\* origin-descendant of X, the step ends with a node of the root's id
\* selected, the group-level slots (pOut, pIn, pLit) empty and the
\* entity-level slots holding that node's filters.
C11_CollapseReselectsRoot ==
    [][ (/\ last'.op = "collapse"
         /\ selectedNode # Null
         /\ selectedNode \in Range(nodes)
         /\ heap[selectedNode].id \in OriginSubtree(last'.id))
        => (/\ rootNode' # Null
            /\ selectedNode' # Null
            /\ heap'[selectedNode'].id = heap'[rootNode'].id
            /\ heap'[selectedNode'].selected
            /\ slots'.pOut = Null /\ slots'.pIn = Null /\ slots'.pLit = Null
            /\ slots'.nOut = heap'[selectedNode'].outFilter
            /\ slots'.nIn = heap'[selectedNode'].inFilter) ]_vars

\* ---------------------------------------------------------------- C12
\* C12: selectNode(id) for an id present in the working set selects that
\* node and publishes the slots of its variant: an entity node's filters in
\* nOut, nIn with pOut, pIn, pLit empty; a property-group node's filters in
\* pOut, pIn, pLit with nOut, nIn empty; for a literal node all five slots
\* empty and all child totals 0.
C12_SelectPublishesSlotsByVariant ==
    (last.op = "select" /\ last.id \in NodeIds) =>
        /\ selectedNode # Null
        /\ heap[selectedNode].id = last.id
        /\ CharAt0(last.id) = "N" =>
              /\ slots.nOut = heap[selectedNode].outFilter
              /\ slots.nIn = heap[selectedNode].inFilter
              /\ slots.nOut # Null /\ slots.nIn # Null
              /\ slots.pOut = Null /\ slots.pIn = Null /\ slots.pLit = Null
        /\ CharAt0(last.id) = "P" =>
              /\ slots.pOut = heap[selectedNode].outFilter
              /\ slots.pIn = heap[selectedNode].inFilter
              /\ slots.pLit = heap[selectedNode].litFilter
              /\ slots.pOut # Null /\ slots.pIn # Null /\ slots.pLit # Null
              /\ slots.nOut = Null /\ slots.nIn = Null
        /\ CharAt0(last.id) = "L" =>
              /\ slots = NoFilters
              /\ childTotals = NoTotals

\* a property-group node on display has been selected
C12_Witness ==
    /\ last.op = "select"
    /\ last.id \in NodeIds
    /\ CharAt0(last.id) = "P"
    /\ slots.pLit # Null

\* a literal node on display has been selected
C12_WitnessLiteral ==
    /\ last.op = "select"
    /\ last.id \in NodeIds
    /\ CharAt0(last.id) = "L"
    /\ selectedNode # Null

\* ---------------------------------------------------------------- C13
\* C13: after a selectNode call the only node whose selected flag is set is
\* the selected node; when the id is null or absent from the working set
\* there is no selected node, no node is flagged selected and all five
\* filter slots are empty.
C13_SelectFlagsOnlySelected ==
    last.op = "select" =>
        /\ \A i \in 1..Len(nodes) :
              heap[nodes[i]].selected => nodes[i] = selectedNode
        /\ (last.id = <<>> \/ last.id \notin NodeIds) =>
              /\ selectedNode = Null
              /\ slots = NoFilters

\* ---------------------------------------------------------------- C14
\* C14: toggleNode(X) dispatches on X's state and variant: an expanded X is
\* collapsed without any query being issued; an unexpanded entity node gets
\* one request of two group queries; an unexpanded property-group node gets
\* one request of three queries; a literal node gets no query and nodes,
\* edges, selection, loading flag and error message stay as they are.
C14_ToggleDispatches ==
    [][ /\ last'.op = "collapse" =>
              /\ Len(pending') = Len(pending)
              /\ loading' = loading
              /\ last'.id \in NodeIds'
              /\ \A n \in NodesWithId(heap', nodes', last'.id) : ~heap'[n].expanded
        /\ (last'.op = "expand" /\ CharAt0(last'.id) = "N") =>
              /\ Len(pending') = Len(pending) + 1
              /\ pending'[Len(pending')].kind = "node"
              /\ heap'[pending'[Len(pending')].node].id = last'.id
              /\ pending'[Len(pending')].qouts # EmptyObject
              /\ pending'[Len(pending')].qins # EmptyObject
              /\ pending'[Len(pending')].qlits = EmptyObject
        /\ (last'.op = "expand" /\ CharAt0(last'.id) = "P") =>
              /\ Len(pending') = Len(pending) + 1
              /\ pending'[Len(pending')].kind = "prop"
              /\ heap'[pending'[Len(pending')].node].id = last'.id
              /\ pending'[Len(pending')].qouts # EmptyObject
              /\ pending'[Len(pending')].qins # EmptyObject
              /\ pending'[Len(pending')].qlits # EmptyObject
        /\ (last'.op = "expand" /\ CharAt0(last'.id) = "L") =>
              UNCHANGED <<heap, fheap, nodes, edges, selectedNode, slots,
                          loading, error, pending>> ]_vars

\* toggleNode of an unexpanded property-group node has issued its request
C14_Witness ==
    /\ last.op = "expand"
    /\ CharAt0(last.id) = "P"
    /\ pending # <<>>
    /\ pending[Len(pending)].kind = "prop"

\* toggleNode has been called for a literal node
C14_WitnessLiteral ==
    /\ last.op = "expand"
    /\ CharAt0(last.id) = "L"

\* toggleNode has collapsed an expanded node
C14_WitnessCollapse ==
    /\ last.op = "collapse"
    /\ \E i \in 1..Len(nodes) : heap[nodes[i]].id = last.id /\ ~heap[nodes[i]].expanded

\* ---------------------------------------------------------------- C15
\* the steps in which reset, expand or expandProperty issues its queries
StartsRequest ==
    \/ /\ last'.op \in {"reset", "expand", "expandSelectedNode", "expandSelectedProperty"}
       /\ Len(pending') = Len(pending) + 1
    \/ last'.op = "resetNext"

ErrorOps == {"resetError", "expandNodeError", "expandPropertyError"}

\* C15 (as stated): every reset, expand and expandProperty call sets the
\* error message to none before its queries are issued, and a message
\* published by an earlier request is never visible once a newer request
\* has started: a request that fails while a request started after it is
\* in flight shows no message.
C15_NoEarlierErrorOnceNewerStarted ==
    [][ /\ StartsRequest => error' = ""
        /\ (last'.op \in ErrorOps /\ last'.res.newer) => error' = "" ]_vars

\* C15 (amended): every reset, expand and expandProperty call sets the error
\* message to none before its queries are issued, so a message on display
\* when a request starts is not on display once it has started.
C15_RequestStartClearsError ==
    [][ StartsRequest => error' = "" ]_vars

\* the expansion of the root failed and set its error flag with a message;
\* the second call, expanding the root again, has cleared the message
C15_Witness ==
    /\ ops = 2
    /\ last.op = "expand"
    /\ rootNode # Null
    /\ last.id = heap[rootNode].id
    /\ heap[rootNode].error # ""
    /\ pending # <<>>
    /\ error = ""

\* ---------------------------------------------------------------- C16
\* C16: a reset(E) whose entity fetch is rejected changes neither the node
\* collection nor the edge collection nor the selection, in the call and
\* in the error handler alike, and the handler publishes a non-empty error
\* message.
C16_RejectedResetKeepsWorkingSet ==
    [][ /\ last'.op = "reset" =>
              /\ nodes' = nodes /\ edges' = edges /\ heap' = heap
              /\ selectedNode' = selectedNode
        /\ last'.op = "resetError" =>
              /\ nodes' = nodes /\ edges' = edges /\ heap' = heap
              /\ selectedNode' = selectedNode
              /\ error' # "" ]_vars

\* the fetch of a reset is rejected while a graph with a selection is shown
C16_Witness ==
    /\ last.op = "resetError"
    /\ Len(nodes) > 1
    /\ edges # <<>>
    /\ selectedNode # Null
    /\ error # ""

\* ---------------------------------------------------------------- C17
\* the page number of the retained filter of node a in heap h, filters fh
OutPage(h, fh, a) == fh[h[a].outFilter].pageNumber
InPage(h, fh, a) == fh[h[a].inFilter].pageNumber

\* C17: a node's retained filters survive re-expansion. For an entity node
\* that has been expanded before: toggleNode's expand (no override) leaves
\* both retained page numbers as they are, expandSelectedNode (an override
\* for one direction) leaves the page number of the other direction as it
\* is, and the merge step of the expansion changes neither.
C17_RetainedFiltersSurvive ==
    [][ \A a \in Range(nodes) :
          (/\ heap[a].id = last'.id
           /\ CharAt0(last'.id) = "N"
           /\ heap[a].outTotal # Undef
           /\ a \in Range(nodes')
           /\ heap'[a].id = last'.id) =>
             /\ last'.op = "expand" =>
                   /\ OutPage(heap', fheap', a) = OutPage(heap, fheap, a)
                   /\ InPage(heap', fheap', a) = InPage(heap, fheap, a)
             /\ last'.op = "expandSelectedNode" =>
                   \/ OutPage(heap', fheap', a) = OutPage(heap, fheap, a)
                   \/ InPage(heap', fheap', a) = InPage(heap, fheap, a)
             /\ last'.op = "expandNodeNext" =>
                   /\ OutPage(heap', fheap', a) = OutPage(heap, fheap, a)
                   /\ InPage(heap', fheap', a) = InPage(heap, fheap, a) ]_vars

\* ---------------------------------------------------------------- C18
\* the ids of the nodes derived from the results of the last expansion:
\* out, from the outbound results (and literals); in, from the inbound ones
ProductIds ==
    IF last.op = "expandNodeNext"
    THEN [out |-> { buildPropertyId(p, getNodeNumericId(last.id)) : p \in Range(last.res.outs) },
          in  |-> { buildPropertyId(p, getNodeNumericId(last.id)) : p \in Range(last.res.ins) }]
    ELSE [out |-> { buildNodeId(e) : e \in Range(last.res.outs) }
                    \cup { buildLiteralId(t) : t \in Range(last.res.lits) },
          in  |-> { buildNodeId(e) : e \in Range(last.res.ins) }]

\* C18: after a successful expansion of node X (expandNode or
\* expandProperty) every node whose originId is X and every edge whose
\* originId is X is derived from the results just received: nothing that a
\* previous expansion of X produced and the new results do not contain is
\* left in the working set.
C18_ReexpansionReplacesProducts ==
    last.op \in {"expandNodeNext", "expandPropertyNext"} =>
        /\ \A i \in 1..Len(nodes) :
              heap[nodes[i]].originId = last.id =>
                  heap[nodes[i]].id \in ProductIds.out \cup ProductIds.in
        /\ \A k \in 1..Len(edges) :
              edges[k].originId = last.id =>
                  \/ edges[k].source = last.id /\ edges[k].target \in ProductIds.out
                  \/ edges[k].target = last.id /\ edges[k].source \in ProductIds.in

\* ---------------------------------------------------------------- C19
\* C19: when a query of an expandNode or expandProperty request is rejected
\* nothing is merged: the published nodes are the nodes the request
\* captured when it was called, each with its expanded flag and totals as
\* they were, and the published edges are unchanged.
C19_NoPartialMerge ==
    [][ last'.op \in {"expandNodeError", "expandPropertyError"} =>
          \E i \in 1..Len(pending) :
            /\ pending[i].kind = IF last'.op = "expandNodeError" THEN "node" ELSE "prop"
            /\ heap[pending[i].node].id = last'.id
            /\ Len(nodes') = Len(pending[i].nodes)
            /\ \A k \in 1..Len(nodes') :
                  /\ heap'[nodes'[k]].id = heap[pending[i].nodes[k]].id
                  /\ heap'[nodes'[k]].expanded = heap[pending[i].nodes[k]].expanded
                  /\ heap'[nodes'[k]].outTotal = heap[pending[i].nodes[k]].outTotal
                  /\ heap'[nodes'[k]].inTotal = heap[pending[i].nodes[k]].inTotal
                  /\ heap'[nodes'[k]].litTotal = heap[pending[i].nodes[k]].litTotal
            /\ edges' = edges ]_vars

\* a query of an expansion of a property-group node has been rejected: the
\* node has no children and is not expanded
C19_Witness ==
    /\ last.op = "expandPropertyError"
    /\ error # ""
    /\ \E a \in NodesWithId(heap, nodes, last.id) :
          ~heap[a].expanded /\ heap[a].outTotal = Undef
    /\ \A i \in 1..Len(nodes) : heap[nodes[i]].originId # last.id

\* a query of an expansion of an entity node has been rejected
C19_WitnessEntity ==
    /\ last.op = "expandNodeError"
    /\ \E a \in NodesWithId(heap, nodes, last.id) :
          ~heap[a].expanded /\ heap[a].outTotal = Undef
    /\ \A i \in 1..Len(nodes) : heap[nodes[i]].originId # last.id

\* ---------------------------------------------------------------- C20
\* C20: the loading flag is true in every state in which a request of
\* reset, expandNode or expandProperty has not yet settled, the expansion
\* that reset starts and overlapping expansions included.
C20_LoadingWhilePending ==
    pending # <<>> => loading

\* ---------------------------------------------------------------- C21
\* the filter published in a slot has the content of the filter f
SlotHolds(slot, f) == slot # Null /\ fheap[slot] = fheap[f]

\* C21: whenever a node is selected, the published child totals are the
\* totals recorded on that node and the published slots of its variant
\* hold its retained filters, also after the selected node has been
\* expanded or re-expanded.
C21_PublishedTotalsFollowSelected ==
    selectedNode # Null =>
        LET nd == heap[selectedNode]
        IN  /\ CharAt0(nd.id) = "N" =>
                  /\ childTotals = [nOut |-> OrZero(nd.outTotal), nIn |-> OrZero(nd.inTotal),
                                     pOut |-> 0, pIn |-> 0, pLit |-> 0]
                  /\ SlotHolds(slots.nOut, nd.outFilter)
                  /\ SlotHolds(slots.nIn, nd.inFilter)
            /\ CharAt0(nd.id) = "P" =>
                  /\ childTotals = [nOut |-> 0, nIn |-> 0,
                                     pOut |-> OrZero(nd.outTotal), pIn |-> OrZero(nd.inTotal),
                                     pLit |-> OrZero(nd.litTotal)]
                  /\ SlotHolds(slots.pOut, nd.outFilter)
                  /\ SlotHolds(slots.pIn, nd.inFilter)
                  /\ SlotHolds(slots.pLit, nd.litFilter)

\* ---------------------------------------------------------------- C22
\* the request s carries the anchor, predicate and role of its own node
CarriesOwnAnchor(s) ==
    LET id  == heap[s.node].id
        nid == getNodeNumericId(id)
    IN  /\ s.kind = "node" =>
              /\ Has(s.qouts, "subjectId") /\ s.qouts.subjectId = nid
              /\ Has(s.qins, "objectId") /\ s.qins.objectId = nid
        /\ s.kind = "prop" =>
              /\ s.qouts.otherNodeId = nid
              /\ s.qouts.predicateId = getPredicateNumericId(id)
              /\ s.qouts.isObject
              /\ s.qins.otherNodeId = nid
              /\ s.qins.predicateId = getPredicateNumericId(id)
              /\ ~s.qins.isObject
              /\ s.qlits.subjectId = nid
              /\ s.qlits.predicateId = getPredicateNumericId(id)

\* C22: every query of an expandNode or expandProperty request in flight
\* carries the anchor entity id (for expandProperty also the predicate id
\* and the role flag) derived from the id of the expanded node, whatever
\* the override held for those keys.
C22_QueriesCarryOwnAnchor ==
    \A i \in 1..Len(pending) : CarriesOwnAnchor(pending[i])

\* the part of C22 about expandNode and about the literal query
C22_EntityAndLiteralQueriesCarryOwnAnchor ==
    \A i \in 1..Len(pending) :
        LET s   == pending[i]
            nid == getNodeNumericId(heap[s.node].id)
        IN  /\ s.kind = "node" => s.qouts.subjectId = nid /\ s.qins.objectId = nid
            /\ s.kind = "prop" =>
                  /\ s.qlits.subjectId = nid
                  /\ s.qlits.predicateId = getPredicateNumericId(heap[s.node].id)
                  /\ s.qouts.isObject /\ ~s.qins.isObject

\* ---------------------------------------------------------------- C23
\* C23: after a successful expandNode the node's outTotal and inTotal are
\* the totals of the outbound and inbound group responses, and after a
\* successful expandProperty the node's outTotal, inTotal and litTotal are
\* the totals of the three responses; a total is the count of all matches,
\* whatever the number of items on the page received.
C23_TotalsAreResponseTotals ==
    last.op \in {"expandNodeNext", "expandPropertyNext"} =>
        last.res.stored = last.res.totals

\* an expansion received an empty page of outbound groups out of two, and
\* the node on display has the total
C23_Witness ==
    /\ last.op = "expandNodeNext"
    /\ last.res.outs = <<>>
    /\ last.res.totals[1] = 2
    /\ last.res.stored[1] = 2
    /\ \E a \in NodesWithId(heap, nodes, last.id) : heap[a].outTotal = 2

\* an expansion of a property group received its three responses
C23_WitnessProperty ==
    /\ last.op = "expandPropertyNext"
    /\ last.res.totals[3] = 1
    /\ last.res.stored[3] = 1
    /\ \E a \in NodesWithId(heap, nodes, last.id) : heap[a].litTotal = 1

\* ---------------------------------------------------------------- C24
\* the datatype of the literal of relationship t ("" when it has none)
LiteralTypeOf(t) == (CHOOSE u \in Triples : u.id = t).type

\* C24: after a successful expandProperty of G, the edge from G to the node
\* of every literal received carries the literal's datatype as its label
\* (the empty label when the literal has no datatype).
C24_LiteralEdgeCarriesDatatype ==
    last.op = "expandPropertyNext" =>
        \A t \in Range(last.res.lits) :
            \A k \in 1..Len(edges) :
                (edges[k].source = last.id /\ edges[k].target = buildLiteralId(t)) =>
                    edges[k].label = LiteralTypeOf(t)

\* ---------------------------------------------------------------- C25
\* C25: a node is unexpanded, expanded or in error: no published node is
\* both expanded and flagged in error, and a successful expansion leaves
\* its node expanded with no error flag.
C25_ExpandedOrError ==
    /\ \A a \in Range(nodes) : ~(heap[a].expanded /\ heap[a].error # "")
    /\ last.op \in {"expandNodeNext", "expandPropertyNext"} =>
          \A a \in NodesWithId(heap, nodes, last.id) :
              heap[a].expanded /\ heap[a].error = ""

\* ---------------------------------------------------------------- C26
SettleOps == {"expandNodeNext", "expandPropertyNext",
              "expandNodeError", "expandPropertyError"}

\* C26: when the response to an expandNode or expandProperty issued before
\* a collapse arrives right after it, the only nodes that enter the
\* published collection are the products of the response: no node the
\* collapse removed comes back.
C26_CollapsedNodesStayRemoved ==
    [][ (last.op = "collapse" /\ last'.op \in SettleOps) =>
          (NodeIds' \ NodeIds) \subseteq
              IF last'.op \in ErrorOps THEN {}
              ELSE ProductIds'.out \cup ProductIds'.in ]_vars

\* ---------------------------------------------------------------- C27
\* C27: when the node collection is not empty it holds exactly one node
\* with the empty originId, the root of the latest successful reset, and
\* the originId of every other node is the id of a node of the collection.
C27_OriginTree ==
    nodes # <<>> =>
        /\ rootNode # Null
        /\ { a \in Range(nodes) : heap[a].originId = <<>> } = {rootNode}
        /\ \A a \in Range(nodes) :
              heap[a].originId # <<>> => heap[a].originId \in NodeIds

\* the part of C27 that does not name the root of the latest reset
C27_OneRootAndParentsPresent ==
    nodes # <<>> =>
        /\ Cardinality({ a \in Range(nodes) : heap[a].originId = <<>> }) = 1
        /\ \A a \in Range(nodes) :
              heap[a].originId # <<>> => heap[a].originId \in NodeIds

\* ---------------------------------------------------------------- C28
\* C28: after toggleNode has collapsed node X no edge whose originId is X
\* is left in the edge collection, the edges from X to nodes that existed
\* before X was expanded included.
C28_CollapseRemovesOwnEdges ==
    last.op = "collapse" =>
        \A k \in 1..Len(edges) : edges[k].originId # last.id

\* ---------------------------------------------------------------- C29
\* e is an edge from a group node of predicate p to x
FromGroup(e, p, x) ==
    /\ CharAt0(e.source) = "P"
    /\ getPredicateNumericId(e.source) = p
    /\ e.target = x

\* an edge to x from a group node of predicate p is in the edge collection
GroupEdgePresent(p, x) ==
    \E k \in 1..Len(edges) : FromGroup(edges[k], p, x)

\* C29: when the one expansion in flight, of entity X, succeeds, the arrays
\* it copied being torn down of X's previous children: an inbound group
\* received with predicate p adds no edge, and no node of its own, if the
\* torn-down edges hold an edge to X from a group node of p, whatever its
\* anchor; otherwise P{p}N{X} is present afterwards, with the edge
\* P{p}N{X} -> X exactly when the inverse X -> P{p}N{X} is not there.
C29_InboundGroupSuppressedByAnyAnchor ==
    [][ (last'.op = "expandNodeNext" /\ Len(pending) = 1) =>
          LET x       == last'.id
              torn    == removeChildren([w |-> Walker, nodes |-> pending[1].nodes,
                                         edges |-> pending[1].edges], x)
              tornIds == { heap[torn.nodes[i]].id : i \in 1..Len(torn.nodes) }
              has(a, b) == \E e \in Range(edges') : e.source = a /\ e.target = b
          IN  \A p \in Range(last'.res.ins) :
                LET g == <<"P">> \o NumStr(p) \o x
                IN  IF \E k \in 1..Len(torn.edges) : FromGroup(torn.edges[k], p, x)
                    THEN /\ { e \in Range(edges') : FromGroup(e, p, x) }
                               = { e \in Range(torn.edges) : FromGroup(e, p, x) }
                         /\ (g \in NodeIds') =>
                               (g \in tornIds \/ p \in Range(last'.res.outs))
                    ELSE /\ g \in NodeIds'
                         /\ has(g, x) <=> ~has(x, g) ]_vars

\* X has been expanded with an inbound group of predicate p while the edge
\* from a group node of p anchored at another entity led to X, and no
\* group node of p anchored at X has been added
C29_Witness ==
    /\ last.op = "expandNodeNext"
    /\ pending = <<>>
    /\ \E p \in Range(last.res.ins) :
          /\ GroupEdgePresent(p, last.id)
          /\ <<"P">> \o NumStr(p) \o last.id \notin NodeIds

\* X has been expanded with an inbound group whose node and edge were added,
\* and with another whose node carries the inverse edge only
C29_WitnessAdded ==
    /\ last.op = "expandNodeNext"
    /\ \E p \in Range(last.res.ins) :
          HasEdge(<<"P">> \o NumStr(p) \o last.id, last.id)
    /\ \E p \in Range(last.res.ins) :
          /\ ~GroupEdgePresent(p, last.id)
          /\ HasEdge(last.id, <<"P">> \o NumStr(p) \o last.id)

\* ---------------------------------------------------------------- C30
\* C30: when entity Y, produced by expanding the property group P{q}N{X},
\* has been expanded, every outbound group received for Y with a predicate
\* p other than q has its own node P{p}N{Y} and the edge Y -> P{p}N{Y},
\* whether or not X has a property group of p in the working set.
C30_OnlyOwnGroupSuppressed ==
    last.op = "expandNodeNext" =>
        \A a \in NodesWithId(heap, nodes, last.id) :
            LET g == heap[a].originId
                q == getPredicateNumericId(g)
            IN  CharAt0(g) = "P" =>
                  \A p \in Range(last.res.outs) \ {q} :
                      /\ <<"P">> \o NumStr(p) \o last.id \in NodeIds
                      /\ HasEdge(last.id, <<"P">> \o NumStr(p) \o last.id)

\* ---------------------------------------------------------------- C31
\* the calls that start an expansion
ExpandCalls == {"expand", "expandSelectedNode", "expandSelectedProperty"}

\* C31: when the one request in flight, started by the call just made,
\* fails, the filters the node retains are the ones it retained before the
\* call: overrides given to the failing call are not retained.
C31_FailedExpandKeepsFilters ==
    [][ ( /\ last.op \in ExpandCalls
          /\ Len(pending) = 1
          /\ last'.op \in {"expandNodeError", "expandPropertyError"}
          /\ last'.id = last.id )
        => last'.res.filters = last.res.filters ]_vars

\* C31 for the page numbers alone: after the failure the retained outbound
\* and inbound filters have the page number they had before the call
C31_FailedExpandKeepsPage ==
    [][ ( /\ last.op \in ExpandCalls
          /\ Len(pending) = 1
          /\ last'.op \in {"expandNodeError", "expandPropertyError"}
          /\ last'.id = last.id )
        => /\ last'.res.filters[1].pageNumber = last.res.filters[1].pageNumber
           /\ last'.res.filters[2].pageNumber = last.res.filters[2].pageNumber ]_vars

\* ---------------------------------------------------------------- C32
\* C32: in every state the source and the target of every published edge
\* are ids of published nodes.
C32_EdgeEndsArePublishedNodes ==
    \A k \in 1..Len(edges) :
        edges[k].source \in NodeIds /\ edges[k].target \in NodeIds

\* ---------------------------------------------------------------- C33
\* C33: in every state the selected node is none or has the id of a node of
\* the published node collection; a reset does not leave the selection on
\* a node of the working set it replaced.
C33_SelectionInWorkingSet ==
    selectedNode # Null => heap[selectedNode].id \in NodeIds

\* ---------------------------------------------------------------- C34
SuccessOps == {"expandNodeNext", "expandPropertyNext"}

\* the ids of the published nodes whose originId is x
ChildIds(x) == { heap[a].id : a \in { b \in Range(nodes) : heap[b].originId = x } }

\* C34: the expansion of node A has just succeeded while the expansion of
\* another node B, neither a descendant of the other, was in flight (so both
\* were issued before either response), and now B's succeeds too: the
\* working set holds the children and edges A's expansion produced and the
\* children B's expansion produced.
C34_OverlappingExpansionsBothMerged ==
    [][ ( /\ last.op \in SuccessOps /\ ~last.res.root
          /\ Len(pending) = 1
          /\ last'.op \in SuccessOps /\ ~last'.res.root
          /\ last'.id # last.id
          /\ {last.id, last'.id} \subseteq NodeIds
          /\ last.id \notin OriginSubtree(last'.id)
          /\ last'.id \notin OriginSubtree(last.id) )
        => /\ ChildIds(last.id) \subseteq NodeIds'
           /\ \A e \in Range(edges) : e.originId = last.id => e \in Range(edges')
           /\ ProductIds'.out \cup ProductIds'.in \subseteq NodeIds' ]_vars

\* ---------------------------------------------------------------- C35
\* C35: in every state a published node that is the origin of another
\* published node is expanded.
C35_ParentsAreExpanded ==
    \A a \in Range(nodes) :
        (\E b \in Range(nodes) \ {a} : heap[b].originId = heap[a].id)
            => heap[a].expanded

\* ---------------------------------------------------------------- C36
\* C36: when node X is collapsed, or the one expansion in flight, of X,
\* succeeds, every edge whose originId is neither X nor the id of a node
\* whose origin chain leads back to X is still in the edge collection.
C36_ForeignEdgesSurvive ==
    [][ ( \/ last'.op = "collapse"
          \/ last'.op \in SuccessOps /\ Len(pending) = 1 )
        => \A e \in Range(edges) :
              (e.originId # last'.id /\ e.originId \notin OriginSubtree(last'.id))
                  => e \in Range(edges') ]_vars

\* ---------------------------------------------------------------- C37
\* C37: for every published entity node, a subject id in its retained
\* outbound filter and an object id in its retained inbound filter are the
\* node's own numeric id.
C37_EntityFiltersAnchoredAtSelf ==
    \A a \in Range(nodes) :
        CharAt0(heap[a].id) = "N" =>
            LET nid  == getNodeNumericId(heap[a].id)
                outf == fheap[heap[a].outFilter]
                inf  == fheap[heap[a].inFilter]
            IN  /\ Has(outf, "subjectId") => outf.subjectId = nid
                /\ Has(inf, "objectId") => inf.objectId = nid

====
